---------------------------- MODULE Spec2Model ----------------------------
(***************************************************************************)
(* A model of sage-flatsurf's subfield_from_elements                       *)
(* (flatsurf/geometry/subfield.py) and of the construction of              *)
(* HyperbolicPlane parents (flatsurf/geometry/hyperbolic.py).              *)
(*                                                                         *)
(* Number fields are modelled exactly: a field of degree n is a basis      *)
(* e_1 = 1, e_2, ..., e_n over the rationals with the table of the         *)
(* products e_i * e_j, an element is its coordinate vector, a rational is  *)
(* a reduced fraction <<numerator, denominator>>.  Subspaces of Q^n are    *)
(* kept, as Sage keeps them, by their reduced row echelon basis.           *)
(***************************************************************************)
EXTENDS Integers, Sequences, FiniteSets, TLC

(***************************************************************************)
(* Exact rational arithmetic (sage.rings.rational_field.QQ).               *)
(***************************************************************************)
Abs(x) == IF x < 0 THEN -x ELSE x

RECURSIVE GCD(_, _)
GCD(a, b) == IF b = 0 THEN a ELSE GCD(b, a % b)

Rat(n, d) ==
    IF d = 1 THEN <<n, 1>>
    ELSE LET g == GCD(Abs(n), Abs(d))
             s == IF d < 0 THEN -1 ELSE 1
         IN  <<(s * n) \div g, (s * d) \div g>>

RZero == <<0, 1>>
ROne == <<1, 1>>
RIsZero(a) == a[1] = 0
RNeg(a) == <<-a[1], a[2]>>
RAdd(a, b) ==
    IF a[1] = 0 THEN b
    ELSE IF b[1] = 0 THEN a
    ELSE IF a[2] = b[2] THEN Rat(a[1] + b[1], a[2])
    ELSE LET g == GCD(a[2], b[2])
         IN  Rat(a[1] * (b[2] \div g) + b[1] * (a[2] \div g),
                 (a[2] \div g) * b[2])
RMul(a, b) ==
    IF a[1] = 0 \/ b[1] = 0 THEN RZero
    ELSE LET g == GCD(Abs(a[1]), b[2])
             h == GCD(Abs(b[1]), a[2])
         IN  <<(a[1] \div g) * (b[1] \div h), (a[2] \div h) * (b[2] \div g)>>
RInv(a) == Rat(a[2], a[1])

(***************************************************************************)
(* Vectors of Q^n (sage.modules.free_module.VectorSpace(QQ, n)).           *)
(***************************************************************************)
\* the sequence v, with every entry evaluated
Seq1(v) == v \o <<>>
ZeroVec(n) == Seq1([k \in 1..n |-> RZero])
UnitVec(n, i) == Seq1([k \in 1..n |-> IF k = i THEN ROne ELSE RZero])
IsZeroVec(v) == \A k \in 1..Len(v) : RIsZero(v[k])
VScale(c, v) == Seq1([k \in 1..Len(v) |-> RMul(c, v[k])])
VAdd(u, v) == Seq1([k \in 1..Len(u) |-> RAdd(u[k], v[k])])
\* v - c * b
VSubScaled(v, c, b) ==
    IF RIsZero(c) THEN v
    ELSE Seq1([k \in 1..Len(v) |-> RAdd(v[k], RNeg(RMul(c, b[k])))])
\* the first non-zero column of a non-zero vector
Pivot(v) == CHOOSE p \in 1..Len(v) :
                /\ ~RIsZero(v[p])
                /\ \A k \in 1..(p - 1) : RIsZero(v[k])


(***************************************************************************)
(* Subspaces of Q^n.  V.subspace(vecs), U.basis(), "v in U" and "U += W"   *)
(* of Sage all work on the echelonized basis of the subspace: the rows of  *)
(* the reduced row echelon form, ordered by pivot.  A subspace is the      *)
(* sequence of these rows.                                                 *)
(***************************************************************************)
\* v minus its projection along the pivots of the rows k.. of B
RECURSIVE ReduceFrom(_, _, _)
ReduceFrom(B, v, k) ==
    IF k > Len(B) THEN v
    ELSE ReduceFrom(B, VSubScaled(v, v[Pivot(B[k])], B[k]), k + 1)

Reduce(B, v) == ReduceFrom(B, v, 1)

\* "v not in U" always true: every product counts as new
InSpaceNever(B, v) == FALSE

\* v in U
InSpace(B, v) == IsZeroVec(Reduce(B, v))

\* U + V.subspace([v])
SpaceAdd(B, v) ==
    LET r == Reduce(B, v)
    IN  IF IsZeroVec(r) THEN B
        ELSE LET p == Pivot(r)
                 w == VScale(RInv(r[p]), r)
                 cleared == Seq1([k \in 1..Len(B) |-> VSubScaled(B[k], B[k][p], w)])
                 below == Cardinality({k \in 1..Len(B) : Pivot(B[k]) < p})
             IN  SubSeq(cleared, 1, below) \o <<w>>
                    \o SubSeq(cleared, below + 1, Len(B))

\* V.subspace(vecs)
RECURSIVE SubspaceFrom(_, _, _)
SubspaceFrom(B, vecs, k) ==
    IF k > Len(vecs) THEN B
    ELSE SubspaceFrom(SpaceAdd(B, vecs[k]), vecs, k + 1)

Subspace(vecs) == SubspaceFrom(<<>>, vecs, 1)

\* U.dimension()
Dimension(B) == Len(B)

\* M.solve_left(t): the x with x * M = t, for a matrix M with independent
\* rows; <<>> when there is no such x (Sage raises ValueError).  Row i of M
\* is echelonized together with the i-th unit vector, which records the
\* combination of rows that made each echelon row.
SolveLeft(M, t) ==
    LET d == Len(M)
        n == Len(t)
        aug == Seq1([i \in 1..d |-> M[i] \o UnitVec(d, i)])
        r == Reduce(Subspace(aug), t \o ZeroVec(d))
    IN  IF \A k \in 1..n : RIsZero(r[k])
        THEN Seq1([k \in 1..d |-> RNeg(r[n + k])])
        ELSE <<>>

(***************************************************************************)
(* Number fields.  A field is [kind, deg, mul]: mul[i][j] is the           *)
(* coordinate vector of e_i * e_j, and e_1 = 1.                            *)
(***************************************************************************)
\* K(1)
One(K) == UnitVec(K.deg, 1)

\* x * y in K
Mul(K, x, y) ==
    LET n == K.deg
        nzx == {i \in 1..n : ~RIsZero(x[i])}
        nzy == {j \in 1..n : ~RIsZero(y[j])}
        RECURSIVE Sum(_, _)
        Sum(pairs, acc) ==
            IF pairs = {} THEN acc
            ELSE LET pr == CHOOSE q \in pairs : TRUE
                 IN  Sum(pairs \ {pr},
                         VAdd(acc, VScale(RMul(x[pr[1]], y[pr[2]]),
                                          K.mul[pr[1]][pr[2]])))
    IN  Sum(nzx \X nzy, ZeroVec(n))

\* a.is_rational()
IsRational(K, a) == \A k \in 2..K.deg : RIsZero(a[k])

\* a.minpoly().degree(): the least k with a^k in the span of 1, a, ..., a^(k-1)
RECURSIVE MinpolyDegreeFrom(_, _, _, _, _)
MinpolyDegreeFrom(K, a, P, ak, k) ==
    IF InSpace(P, ak) THEN k
    ELSE MinpolyDegreeFrom(K, a, SpaceAdd(P, ak), Mul(K, ak, a), k + 1)

MinpolyDegree(K, a) == MinpolyDegreeFrom(K, a, <<One(K)>>, a, 1)

\* a^k in K
RECURSIVE Power(_, _, _)
Power(K, a, k) == IF k = 0 THEN One(K) ELSE Mul(K, Power(K, a, k - 1), a)

\* the value of the polynomial with coefficients c (constant term first) at a
RECURSIVE EvalPolyFrom(_, _, _, _)
EvalPolyFrom(K, c, a, k) ==
    IF k > Len(c) THEN ZeroVec(K.deg)
    ELSE VAdd(VScale(c[k], One(K)), Mul(K, a, EvalPolyFrom(K, c, a, k + 1)))

EvalPoly(K, c, a) == EvalPolyFrom(K, c, a, 1)

\* NumberField(q) for the monic q = x^d - (r[1] + r[2] x + ... + r[d] x^(d-1)),
\* in its power basis 1, x, ..., x^(d-1)
PolyField(r) ==
    LET d == Len(r)
        shift(v) == VAdd(Seq1([k \in 1..d |-> IF k = 1 THEN RZero ELSE v[k - 1]]),
                         VScale(v[d], r))
        RECURSIVE XPow(_)
        XPow(k) == IF k < d THEN UnitVec(d, k + 1) ELSE shift(XPow(k - 1))
    IN  [kind |-> "NumberField", deg |-> d,
         mul |-> [i \in 1..d |-> [j \in 1..d |-> XPow(i + j - 2)]]]

\* the rational field itself
QQ == [kind |-> "QQ", deg |-> 1, mul |-> <<<<(<<ROne>>)>>>>]

\* Q(sqrt(p_1), ..., sqrt(p_k)) for distinct primes p, in the basis of the
\* square roots of the products of the p's: e_i is the square root of the
\* product of the p_b with bit b of i - 1 set
MultiQuadratic(primes) ==
    LET k == Len(primes)
        n == 2 ^ k
        Bit(m, b) == (m \div (2 ^ (b - 1))) % 2
        RECURSIVE Common(_, _, _)
        Common(i, j, b) ==
            IF b > k THEN 1
            ELSE (IF Bit(i, b) = 1 /\ Bit(j, b) = 1 THEN primes[b] ELSE 1)
                    * Common(i, j, b + 1)
        RECURSIVE Xor(_, _, _)
        Xor(i, j, b) ==
            IF b > k THEN 0
            ELSE (IF Bit(i, b) # Bit(j, b) THEN 2 ^ (b - 1) ELSE 0)
                    + Xor(i, j, b + 1)
    IN  [kind |-> "NumberField", deg |-> n,
         mul |-> [i \in 1..n |-> [j \in 1..n |->
                    VScale(<<Common(i - 1, j - 1, 1), 1>>,
                           UnitVec(n, Xor(i - 1, j - 1, 1) + 1))]]]

\* <<1, a, ..., a^(d-1)>>
Powers(K, a, d) == Seq1([i \in 1..d |-> Power(K, a, i - 1)])

\* a.minpoly(): the coefficients, constant term first, of the monic
\* polynomial of least degree that vanishes at a
Minpoly(K, a) ==
    LET d == MinpolyDegree(K, a)
        c == SolveLeft(Powers(K, a, d), Power(K, a, d))
    IN  Seq1([k \in 1..(d + 1) |-> IF k <= d THEN RNeg(c[k]) ELSE ROne])

\* NumberField(p) for a monic irreducible p
NumberField(p) == PolyField(Seq1([k \in 1..(Len(p) - 1) |-> RNeg(p[k])]))

(***************************************************************************)
(* Inputs.  An element is passed either as an element of the ambient field *)
(* or as a rational number (the 1 of subfield_from_elements(K, [1, sqrt3]) *)
(* of the docstring), which is a vector of length 1.  The ambient fields are Q(sqrt 2), the field of the docstring   *)
(* (x^4 - 4 x^2 + 1, in which sqrt2 = -a^3 + 3a and sqrt3 = -a^2 + 2) and  *)
(* Q(sqrt 2, sqrt 3, sqrt 5), the field of the TESTS block, the last in    *)
(* its basis of square roots 1, r2, r3, r6, r5, r10, r15, r30.             *)
(***************************************************************************)
MaxLen == 2

IntVec(v) == Seq1([k \in 1..Len(v) |-> <<v[k], 1>>])

Quadratic == NumberField(IntVec(<<-2, 0, 1>>))
Quartic == NumberField(IntVec(<<1, 0, -4, 0, 1>>))
TriQuadratic == MultiQuadratic(<<2, 3, 5>>)

AmbientFields == {Quadratic, Quartic, TriQuadratic}

ElementPool(F) ==
    IF F = Quadratic THEN
        { <<(<<1, 2>>), RZero>>, IntVec(<<0, 1>>), <<ROne, (<<-1, 3>>)>> }
    ELSE IF F = Quartic THEN
        { <<ROne>>, IntVec(<<0, 3, 0, -1>>),
          <<ROne, (<<-1, 1>>), RZero, (<<1, 3>>)>>,
          IntVec(<<2, 0, -1, 0>>) }
    ELSE
        { IntVec(<<0, 1, 0, 0, 0, 0, 0, 0>>),
          IntVec(<<0, 1, 1, 0, 0, 0, 0, 0>>) }

Lists(S, n) == UNION {[1..k -> S] : k \in 0..n}

\* Python's None, and the values of the threshold argument: None or a number
None == <<>>
Thresholds == {None, <<0>>, <<100>>}

\* Python's truth value of the threshold argument: "if threshold:"
Truthy(t) == t # None /\ t[1] # 0


(***************************************************************************)
(* The state of one call of subfield_from_elements, and of the cache of    *)
(* HyperbolicPlane parents.                                                *)
(***************************************************************************)
VARIABLES
    pc,         \* where the call is
    K,          \* self: the ambient field
    E,          \* the alpha argument: the elements as they were passed
    alpha,      \* the elements, coerced into self
    polred,     \* the polred argument
    threshold,  \* the threshold argument
    U,          \* the subspace being saturated
    modified,   \* the flag of the saturation loop
    d,          \* the dimension read at the start of the last pass
    vgen,       \* the generator found, or None
    s,          \* the bound of the random sampling
    polredArgs, \* the arguments do_polred was called with; None: not called
    result,     \* what the call returned: [L, elts, phi]
    passes,     \* the passes of the saturation loop made by this call
    scanned,    \* the basis vectors the generator scan examined
    samples,    \* the random elements drawn by this call
    first,      \* the result of the previous call, when this is a second one
    cache,      \* UniqueRepresentation's cache: arguments -> object
    calls       \* the HyperbolicPlane constructions made, with their results

subfieldVars == <<pc, K, E, alpha, polred, threshold, U, modified, d, vgen, s,
                  polredArgs, result, passes, scanned, samples, first>>
planeVars == <<cache, calls>>
vars == <<pc, K, E, alpha, polred, threshold, U, modified, d, vgen, s,
          polredArgs, result, passes, scanned, samples, first, cache, calls>>


(***************************************************************************)
(* subfield_from_elements(self, alpha, name, polred, threshold)            *)
(***************************************************************************)
\* self(a): a rational number q becomes q * 1, an element of self is itself
Coerce(F, a) == IF Len(a) = F.deg THEN a ELSE VScale(a[1], One(F))

\* a itself, not converted
ToQQUnconverted(F, a) == a

\* QQ(a) for a rational element a of F
ToQQ(F, a) == <<a[1]>>

\* F.coerce_map_from(QQ), Hom(F, F, Fields()).identity(), and the hom of
\* F.subfield(g), which sends the generator of the new field to g
CoerceMapFromQQ(F) == [kind |-> "coerce", img |-> One(F)]
\* F.coerce_map_from(QQ) where the identity is meant
IdentityMapCoercing(F) == CoerceMapFromQQ(F)
IdentityMap(F) == [kind |-> "identity", img |-> None]
SubfieldHom(F, g) == [kind |-> "hom", img |-> g]

\* phi(x), for a map phi into F
Apply(F, phi, x) ==
    IF phi.kind = "identity" THEN x
    ELSE IF phi.kind = "coerce" THEN VScale(x[1], phi.img)
    ELSE EvalPoly(F, x, phi.img)

NoResult == [L |-> QQ, elts |-> <<>>, phi |-> [kind |-> "none", img |-> None]]

SubfieldInit ==
    /\ pc = "call"
    /\ K \in AmbientFields
    /\ E \in Lists(ElementPool(K), MaxLen)
    /\ polred \in BOOLEAN
    /\ threshold \in IF polred THEN Thresholds ELSE {None}
    /\ alpha = <<>>
    /\ U = <<>>
    /\ modified = FALSE
    /\ d = 0
    /\ vgen = None
    /\ s = 0
    /\ polredArgs = None
    /\ result = NoResult
    /\ passes = 0
    /\ scanned = 0
    /\ samples = 0
    /\ first = <<>>

\* lines 103-107: every element is rational
RationalCase ==
    /\ pc = "call"
    /\ LET a == Seq1([i \in 1..Len(E) |-> Coerce(K, E[i])])
       IN  /\ \A i \in 1..Len(a) : IsRational(K, a[i])
           /\ alpha' = a
           /\ result' = [L |-> QQ,
                         elts |-> Seq1([i \in 1..Len(a) |-> ToQQ(K, a[i])]),
                         phi |-> CoerceMapFromQQ(K)]
    /\ pc' = "returned"
    /\ UNCHANGED <<K, E, polred, threshold, U, modified, d, vgen, s,
                   polredArgs, passes, scanned, samples, first, cache, calls>>

\* lines 103-112: some element is not rational; the span of the elements
StartSaturation ==
    /\ pc = "call"
    /\ LET a == Seq1([i \in 1..Len(E) |-> Coerce(K, E[i])])
       IN  /\ ~ \A i \in 1..Len(a) : IsRational(K, a[i])
           /\ alpha' = a
           /\ U' = Subspace(a)
    /\ modified' = TRUE
    /\ pc' = "loop"
    /\ UNCHANGED <<K, E, polred, threshold, d, vgen, s, polredArgs, result,
                   passes, scanned, samples, first, cache, calls>>

\* d > self.degree()
AtFullDegreeNever(F, dim) == dim > F.deg

\* line 116: d == self.degree()
AtFullDegree(F, dim) == dim = F.deg

\* lines 113-117: a pass that finds U of full dimension returns self
ReturnAmbient ==
    /\ pc = "loop"
    /\ modified
    /\ AtFullDegree(K, Dimension(U))
    /\ modified' = FALSE
    /\ d' = Dimension(U)
    /\ passes' = passes + 1
    /\ result' = [L |-> K, elts |-> alpha, phi |-> IdentityMap(K)]
    /\ pc' = "returned"
    /\ UNCHANGED <<K, E, alpha, polred, threshold, U, vgen, s, polredArgs,
                   scanned, samples, first, cache, calls>>

\* range(i + 1, d): the squares B[i] * B[i] are left out
InnerStartNext(i) == i + 1

\* line 120: the first j of the inner loop for a given i
InnerStart(i) == i

\* U = V.subspace([v])
EnlargeReplacing(B, v) == Subspace(<<v>>)

\* line 123: U += V.subspace([v])
Enlarge(B, v) == SpaceAdd(B, v)

\* lines 119-124: the products B[i] * B[j] of one pass, each added to U when
\* it is not in it; B is the basis U had when the pass started
RECURSIVE PassFrom(_, _, _, _, _)
PassFrom(F, B, acc, i, j) ==
    IF i > Len(B) THEN acc
    ELSE IF j > Len(B) THEN PassFrom(F, B, acc, i + 1, InnerStart(i + 1))
    ELSE LET v == Mul(F, B[i], B[j])
         IN  PassFrom(F, B,
                      IF ~InSpace(acc.U, v)
                      THEN [U |-> Enlarge(acc.U, v), modified |-> TRUE]
                      ELSE acc,
                      i, j + 1)

\* lines 113-124: a pass of the saturation loop over a U of smaller dimension
SaturationPass ==
    /\ pc = "loop"
    /\ modified
    /\ ~AtFullDegree(K, Dimension(U))
    /\ d' = Dimension(U)
    /\ passes' = passes + 1
    /\ LET after == PassFrom(K, U, [U |-> U, modified |-> FALSE],
                             1, InnerStart(1))
       IN  /\ U' = after.U
           /\ modified' = after.modified
    /\ UNCHANGED <<pc, K, E, alpha, polred, threshold, vgen, s, polredArgs,
                   result, scanned, samples, first, cache, calls>>

\* line 129: b generates the field U, of dimension dim
IsPrimitive(F, b, dim) == MinpolyDegree(F, b) = dim

\* lines 127-131: the index of the first basis vector of U that generates
\* it, 0 when there is none
ScanBasis(F, B, dim) ==
    LET hits == {k \in 1..Len(B) : IsPrimitive(F, B[k], dim)}
    IN  IF hits = {} THEN 0
        ELSE CHOOSE k \in hits : \A h \in hits : k <= h

\* line 133: the first bound of the sampling
FirstBound == 1

\* s += 1
NextBoundIncrement(b) == b + 1

\* line 138: the bound after a failed sample
NextBound(b) == b * 2

\* lines 113, 127-133: the loop ends after a pass that changed nothing; the
\* basis of U is scanned for a generator
BasisScan ==
    /\ pc = "loop"
    /\ ~modified
    /\ LET hit == ScanBasis(K, U, d)
       IN  /\ scanned' = IF hit = 0 THEN Len(U) ELSE hit
           /\ vgen' = IF hit = 0 THEN None ELSE U[hit]
           /\ pc' = IF hit = 0 THEN "sample" ELSE "build"
           /\ s' = IF hit = 0 THEN FirstBound ELSE s
    /\ UNCHANGED <<K, E, alpha, polred, threshold, U, modified, d,
                   polredArgs, result, passes, samples, first, cache, calls>>

\* The coefficients a sample may have.  U.random_element(proba=0.5, x=-s,
\* y=s) is a combination of the basis of U whose coefficients are random
\* rationals bounded by s; the model draws them among 0 and 1, which are
\* in range for every s >= 1.
SampleCoeffs(b) == {c \in {RZero, ROne} : Abs(c[1]) <= b /\ c[2] <= b}

\* the combination of the rows of B with coefficients c
RECURSIVE CombinationFrom(_, _, _)
CombinationFrom(B, c, k) ==
    IF k > Len(B) THEN ZeroVec(Len(B[1]))
    ELSE VAdd(VScale(c[k], B[k]), CombinationFrom(B, c, k + 1))

LinearCombination(B, c) == CombinationFrom(B, c, 1)

\* the samples one call may draw in the model
MaxSamples == 2

\* a loop that gives up once the bound has been doubled
SampleAcceptedOrGivenUp(F, v, dim, bound) == IsPrimitive(F, v, dim) \/ bound >= 2

\* line 136: the sample v ends the sampling loop
SampleAccepted(F, v, dim, bound) == IsPrimitive(F, v, dim)

\* lines 134-138: one round of the sampling loop
Sample ==
    /\ pc = "sample"
    /\ samples < MaxSamples
    /\ \E c \in [1..Len(U) -> SampleCoeffs(s)] :
          LET v == LinearCombination(U, c)
          IN  /\ vgen' = v
              /\ IF SampleAccepted(K, v, d, s)
                 THEN pc' = "build" /\ s' = s
                 ELSE pc' = "sample" /\ s' = NextBound(s)
    /\ samples' = samples + 1
    /\ UNCHANGED <<K, E, alpha, polred, threshold, U, modified, d,
                   polredArgs, result, passes, scanned, first, cache, calls>>

\* The polynomials fwd that do_polred may return in the model, as
\* coefficients, constant term first: x and 1 - x.
PolredMaps == { <<RZero, ROne>>, <<ROne, (<<-1, 1>>)>> }

\* sage.rings.qqbar.do_polred(p, ...): the pairs of a polynomial fwd and of
\* the minimal polynomial q of fwd(x), x a root of p, for which fwd(x)
\* generates the field of p.  Which pair PARI picks is not modelled.
DoPolred(p, args) ==
    LET F == NumberField(p)
        x == UnitVec(F.deg, 2)
    IN  { [fwd |-> f, q |-> Minpoly(F, EvalPoly(F, f, x))] :
            f \in {g \in PolredMaps :
                     MinpolyDegree(F, EvalPoly(F, g, x)) = F.deg} }

\* lines 144-147: the threshold arguments of the call of do_polred
ThresholdArgs(t) == IF Truthy(t) THEN <<t[1]>> ELSE <<>>

\* lines 143-150: fwd and q
Reduction(p, flag, t) ==
    IF flag THEN DoPolred(p, ThresholdArgs(t))
    ELSE {[fwd |-> <<RZero, ROne>>, q |-> p]}

\* the rows for i in range(1, d + 1)
PowerMatrixFromOne(F, g, dim) == Seq1([i \in 1..dim |-> Power(F, g, i)])

\* line 157: the rows (new_gen^i).vector() for i in range(d)
PowerMatrix(F, g, dim) == Powers(F, g, dim)

\* lines 141-160: the new field, its embedding and the elements in it
Build ==
    /\ pc = "build"
    /\ LET gen == vgen
           p == Minpoly(K, gen)
       IN  /\ polredArgs' = IF polred THEN <<p>> \o ThresholdArgs(threshold)
                            ELSE None
           /\ \E red \in Reduction(p, polred, threshold) :
                LET new_gen == EvalPoly(K, red.fwd, gen)
                    M == PowerMatrix(K, new_gen, d)
                    new_alpha == Seq1([i \in 1..Len(alpha) |->
                                         SolveLeft(M, alpha[i])])
                IN  IF \/ Minpoly(K, new_gen) # red.q
                       \/ \E i \in 1..Len(alpha) : new_alpha[i] = <<>>
                    THEN pc' = "raised" /\ result' = result
                    ELSE /\ pc' = "returned"
                         /\ result' = [L |-> NumberField(red.q),
                                       elts |-> new_alpha,
                                       phi |-> SubfieldHom(K, new_gen)]
    /\ UNCHANGED <<K, E, alpha, polred, threshold, U, modified, d, vgen, s,
                   passes, scanned, samples, first, cache, calls>>

\* subfield_from_elements(L, elts) on what a first call returned
CallAgain ==
    /\ pc = "returned"
    /\ first = <<>>
    /\ first' = <<result>>
    /\ K' = result.L
    /\ E' = result.elts
    /\ polred' = TRUE
    /\ threshold' = None
    /\ pc' = "call"
    /\ alpha' = <<>>
    /\ U' = <<>>
    /\ modified' = FALSE
    /\ d' = 0
    /\ vgen' = None
    /\ s' = 0
    /\ polredArgs' = None
    /\ result' = NoResult
    /\ passes' = 0
    /\ scanned' = 0
    /\ samples' = 0
    /\ UNCHANGED <<cache, calls>>

SubfieldNext ==
    \/ RationalCase
    \/ StartSaturation
    \/ ReturnAmbient
    \/ SaturationPass
    \/ BasisScan
    \/ Sample
    \/ Build
    \/ CallAgain

Init == SubfieldInit /\ cache = <<>> /\ calls = <<>>

Next == SubfieldNext

Spec == Init /\ [][Next]_vars


(***************************************************************************)
(* HyperbolicPlane(base_ring=None, category=None).  The class is a         *)
(* UniqueRepresentation: the call of the parent class looks the arguments  *)
(* up in a cache and makes a new object only when they are not in it.  An  *)
(* object is the place of its arguments in the cache.                      *)
(***************************************************************************)
Omitted == "None"
BaseRings == {"QQ", "AA"}
Categories == {"SetsWithPartialMaps", "Sets"}

\* the constructions one run of the model makes
MaxConstructions == 3

\* line 78: base_ring or QQ
BaseRingOrDefault(b) == IF b = Omitted THEN "QQ" ELSE b

\* line 81: category or SetsWithPartialMaps()
CategoryOrDefault(c) == IF c = Omitted THEN "SetsWithPartialMaps" ELSE c

\* the arguments as passed, without their defaults
CacheKeyAsPassed(b, c) == <<b, c>>

\* line 83: the arguments the cache is keyed by
CacheKey(b, c) == <<BaseRingOrDefault(b), CategoryOrDefault(c)>>

\* the object the cache holds for a key, 0 when it holds none
Cached(key) ==
    IF \E k \in 1..Len(cache) : cache[k] = key
    THEN CHOOSE k \in 1..Len(cache) : cache[k] = key
    ELSE 0

\* lines 75-87: one construction
ClassCall(b, c) ==
    /\ Len(calls) < MaxConstructions
    /\ LET key == CacheKey(b, c)
           hit == Cached(key)
           obj == IF hit = 0 THEN Len(cache) + 1 ELSE hit
       IN  /\ cache' = IF hit = 0 THEN Append(cache, key) ELSE cache
           /\ calls' = Append(calls, [base_ring |-> b, category |-> c,
                                      obj |-> obj])
    /\ UNCHANGED subfieldVars

PlaneInit ==
    /\ cache = <<>>
    /\ calls = <<>>
    /\ pc = "call"
    /\ K = Quadratic
    /\ E = <<>>
    /\ polred = TRUE
    /\ threshold = None
    /\ alpha = <<>>
    /\ U = <<>>
    /\ modified = FALSE
    /\ d = 0
    /\ vgen = None
    /\ s = 0
    /\ polredArgs = None
    /\ result = NoResult
    /\ passes = 0
    /\ scanned = 0
    /\ samples = 0
    /\ first = <<>>

PlaneNext ==
    \E b \in BaseRings \cup {Omitted}, c \in Categories \cup {Omitted} :
        ClassCall(b, c)

PlaneSpec == PlaneInit /\ [][PlaneNext]_vars

\* the base ring and the category of an object: what __init__ stored
ObjectBaseRing(obj) == cache[obj][1]
ObjectCategory(obj) == cache[obj][2]


(***************************************************************************)
(* The properties.                                                         *)
(***************************************************************************)
\* the call returned by building a new field (lines 126-160)
ReturnedSubfield == pc = "returned" /\ result.phi.kind = "hom"

\* every element passed is rational
AllRational == \A i \in 1..Len(E) : IsRational(K, Coerce(K, E[i]))

\* C1: when the call returns (L, E', phi), E' has the length and the order
\* of E and phi(E'[i]) = E[i] for every i, whichever return statement it
\* returns by.
ReexpressedExactly ==
    pc = "returned" =>
        /\ Len(result.elts) = Len(E)
        /\ \A i \in 1..Len(E) :
              Apply(K, result.phi, result.elts[i]) = Coerce(K, E[i])

\* a first call returned a new field and two elements in it, the second of
\* them with a coordinate that is no integer
ReexpressedWitness ==
    /\ ReturnedSubfield
    /\ first = <<>>
    /\ Len(E) = 2
    /\ \E k \in 1..Len(result.elts[2]) : result.elts[2][k][2] # 1

\* the smallest subspace that holds the vectors gens and, with any w, the
\* products of w and the gens: span(gens), enlarged by the products of its
\* basis and the gens until it stops growing
RECURSIVE ClosureFrom(_, _, _)
ClosureFrom(F, gens, W) ==
    LET prods == {Mul(F, W[k], gens[i]) : k \in 1..Len(W), i \in 1..Len(gens)}
        RECURSIVE AddAll(_, _)
        AddAll(B, S) ==
            IF S = {} THEN B
            ELSE LET v == CHOOSE x \in S : TRUE
                 IN  AddAll(SpaceAdd(B, v), S \ {v})
        next == AddAll(W, prods)
    IN  IF next = W THEN W ELSE ClosureFrom(F, gens, next)

GeneratedAlgebra(F, gens) == ClosureFrom(F, gens, Subspace(gens))

\* the saturation loop has ended without returning
Saturated ==
    \/ pc = "loop" /\ ~modified
    \/ pc \in {"sample", "build", "raised"}
    \/ ReturnedSubfield

\* C2: when the saturation loop ends, U holds the vectors of E, is closed
\* under multiplication and is the smallest such subspace, and the field
\* returned has the dimension of U as its degree.
SaturationCorrect ==
    Saturated =>
        /\ \A i \in 1..Len(alpha) : InSpace(U, alpha[i])
        /\ \A i, j \in 1..Len(U) : InSpace(U, Mul(K, U[i], U[j]))
        /\ U = GeneratedAlgebra(K, alpha)
        /\ ReturnedSubfield => result.L.deg = Dimension(U)

\* a field of degree 4 was returned after two passes that enlarged U and
\* one that did not
SaturationWitness ==
    /\ ReturnedSubfield
    /\ passes = 3
    /\ Dimension(U) = 4
    /\ result.L.deg = 4

\* C3: when every element is rational (and when there is none), the call
\* returns QQ, the elements as rationals and the inclusion of QQ in self,
\* and makes no pass of the loop, no scan, no sample and no field.
RationalFastPath ==
    (pc # "call" /\ AllRational) =>
        /\ pc = "returned"
        /\ result.L = QQ
        /\ Len(result.elts) = Len(E)
        /\ \A i \in 1..Len(E) :
              /\ Len(result.elts[i]) = 1
              /\ VScale(result.elts[i][1], One(K)) = Coerce(K, E[i])
        /\ result.phi.kind = "coerce"
        /\ \A q \in {RZero, ROne, <<-2, 3>>} :
              Apply(K, result.phi, <<q>>) = VScale(q, One(K))
        /\ U = <<>>
        /\ passes = 0
        /\ scanned = 0
        /\ samples = 0
        /\ polredArgs = None

\* a first call on a field of degree 2 with two rational elements, 1/2
\* twice, returned
RationalWitness ==
    /\ pc = "returned"
    /\ first = <<>>
    /\ AllRational
    /\ K.deg = 2
    /\ Len(E) = 2
    /\ result.elts = <<(<<(<<1, 2>>)>>), (<<(<<1, 2>>)>>)>>

\* the elements of E, coerced into self
CoercedElements == Seq1([i \in 1..Len(E) |-> Coerce(K, E[i])])

\* phi fixes every vector of the basis of F
FixesBasis(F, phi) ==
    \A i \in 1..F.deg : Apply(F, phi, UnitVec(F.deg, i)) = UnitVec(F.deg, i)

\* no scan, no sample and no call of do_polred was made
NoGeneratorSearch == scanned = 0 /\ samples = 0 /\ polredArgs = None

\* C4: when some element is not rational and U has the dimension of self,
\* the pass that starts next returns self, the elements coerced into self
\* and the identity of self; no generator is searched, do_polred is not
\* called.
FullDegreeReturnsAmbient ==
    (pc # "call" /\ ~AllRational /\ Len(U) = K.deg) =>
        /\ NoGeneratorSearch
        /\ \/ pc = "loop" /\ modified
           \/ /\ pc = "returned"
              /\ result.L = K
              /\ result.elts = CoercedElements
              /\ FixesBasis(K, result.phi)

\* a first call returned a field of degree 4 at its second pass
FullDegreeWitness ==
    /\ pc = "returned"
    /\ first = <<>>
    /\ ~AllRational
    /\ Len(U) = K.deg
    /\ K.deg = 4
    /\ passes = 2

\* C5: a second call, on the field and the elements a first call returned,
\* returns that field, those elements and a map that fixes the field.
Idempotent ==
    (pc = "returned" /\ first # <<>>) =>
        /\ result.L = first[1].L
        /\ result.elts = first[1].elts
        /\ result.phi.kind \in {"identity", "coerce"}
        /\ FixesBasis(first[1].L, result.phi)

\* the second call returned, the first having built a field of degree 4
IdempotentWitness ==
    /\ pc = "returned"
    /\ first # <<>>
    /\ first[1].phi.kind = "hom"
    /\ first[1].L.deg = 4
    /\ Len(result.elts) = 2

\* phi, from L into F, is injective: the images of the basis of L are
\* linearly independent
Injective(F, L, phi) ==
    Len(Subspace(Seq1([i \in 1..L.deg |->
                          Apply(F, phi, UnitVec(L.deg, i))]))) = L.deg

\* C6: the degree of the field returned divides the degree of self, and phi
\* is injective; the field being built has degree d, which divides the
\* degree of self from the end of the saturation loop on.
DegreeDividesAndInjective ==
    /\ pc \in {"sample", "build"} => K.deg % d = 0
    /\ pc = "returned" =>
          /\ K.deg % result.L.deg = 0
          /\ Injective(K, result.L, result.phi)

\* a first call returned a field of degree 4 in a field of degree 8
DegreeDividesWitness ==
    /\ ReturnedSubfield
    /\ first = <<>>
    /\ result.L.deg = 4
    /\ K.deg = 8

SamplingBounded == samples >= MaxSamples => pc # "sample"

\* C8, amended: the sampling has no bound on its attempts.  A round of the
\* loop draws one sample; the loop ends when the sample is primitive and
\* only then, and a sample that is not primitive leaves the call in the
\* loop, nothing returned.
SamplingRetriesUntilPrimitive ==
    [][pc = "sample" =>
          /\ samples' = samples + 1
          /\ pc' \in {"sample", "build"}
          /\ pc' = "build" <=> MinpolyDegree(K, vgen') = d
          /\ result' = result]_vars

\* a sample failed and the call is in the loop for another
SamplingWitness == pc = "sample" /\ samples = 1 /\ MinpolyDegree(K, vgen) # d

\* C9, as claimed: two constructions return the same object exactly when
\* their base rings, the default counted as QQ, are the same.
OnePlanePerBaseRing ==
    \A i, j \in 1..Len(calls) :
        (calls[i].obj = calls[j].obj) <=>
            (IF calls[i].base_ring = Omitted THEN "QQ" ELSE calls[i].base_ring)
              = (IF calls[j].base_ring = Omitted THEN "QQ"
                 ELSE calls[j].base_ring)

\* the category of a call, the default counted as SetsWithPartialMaps
CallCategory(call) ==
    IF call.category = Omitted THEN "SetsWithPartialMaps" ELSE call.category

\* the base ring of a call, the default counted as QQ
CallBaseRing(call) ==
    IF call.base_ring = Omitted THEN "QQ" ELSE call.base_ring

\* C9, amended: two constructions return the same object exactly when
\* their base rings and their categories, defaults counted, are the same;
\* the object has the base ring and the category asked for.
OnePlanePerBaseRingAndCategory ==
    /\ \A i, j \in 1..Len(calls) :
          (calls[i].obj = calls[j].obj) <=>
              /\ CallBaseRing(calls[i]) = CallBaseRing(calls[j])
              /\ CallCategory(calls[i]) = CallCategory(calls[j])
    /\ \A i \in 1..Len(calls) :
          /\ ObjectBaseRing(calls[i].obj) = CallBaseRing(calls[i])
          /\ ObjectCategory(calls[i].obj) = CallCategory(calls[i])

\* HyperbolicPlane(), HyperbolicPlane(QQ) and HyperbolicPlane(QQ, Sets())
\* were constructed: the first two are one object, the third another
PlaneWitness ==
    \E i, j, k \in 1..Len(calls) :
        /\ calls[i].base_ring = Omitted /\ calls[i].category = Omitted
        /\ calls[j].base_ring = "QQ" /\ calls[j].category = Omitted
        /\ calls[k].base_ring = "QQ" /\ calls[k].category = "Sets"
        /\ calls[i].obj = calls[j].obj
        /\ calls[k].obj # calls[i].obj

\* the basis vectors of the saturated U that generate it
PrimitiveBasisVectors == {k \in 1..Len(U) : MinpolyDegree(K, U[k]) = Len(U)}

\* C10: the basis of the saturated U is scanned before any sample is
\* drawn.  When some basis vector is primitive the generator is the first
\* such vector and no sample is drawn; when none is, the whole basis was
\* scanned, and the bound s is 1 at the first sample and doubles at each
\* failed one.
ScanBeforeSampling ==
    (pc \in {"sample", "build"} \/ ReturnedSubfield) =>
        IF PrimitiveBasisVectors # {}
        THEN /\ pc # "sample"
             /\ samples = 0
             /\ s = 0
             /\ \A k \in PrimitiveBasisVectors : scanned <= k
             /\ scanned \in PrimitiveBasisVectors
             /\ vgen = U[scanned]
        ELSE /\ scanned = Len(U)
             /\ pc # "sample" => samples >= 1
             /\ s = 2 ^ (IF pc = "sample" THEN samples ELSE samples - 1)

\* a generator was drawn at the second sample, with the bound 2
ScanWitness == pc = "build" /\ samples = 2 /\ s = 2

\* the dimension of the span of the elements, the U the loop starts from
InitialDimension == Dimension(Subspace(alpha))

\* the call is in the saturation loop or past it
SaturationStarted == pc # "call" /\ ~AllRational

\* a step from the loop to the loop: a pass that did not return
PassStep == pc = "loop" /\ pc' = "loop"

\* C11: the saturation loop terminates.  The dimension of U never
\* decreases and never exceeds the degree of self; a pass sets modified
\* exactly when it makes the dimension of U larger, and leaves U as it was
\* when it does not; the passes started, the one that returns self
\* included, are at most degree - dim(span of the elements) + 1; and the
\* loop is left only by the return of self, at full dimension, or with
\* modified False after a pass that enlarged nothing.  SaturationPass has
\* no cap on passes: the bound on passes is the bound on the length of
\* every run of the loop.
SaturationTerminates ==
    /\ [](SaturationStarted =>
            /\ InitialDimension <= Dimension(U)
            /\ Dimension(U) <= K.deg
            /\ passes <= K.deg - InitialDimension + 1)
    /\ [][(pc # "call" /\ pc' # "call") =>
             Dimension(U') >= Dimension(U)]_vars
    /\ [][PassStep =>
             /\ passes' = passes + 1
             /\ modified' <=> Dimension(U') > Dimension(U)
             /\ ~modified' => U' = U]_vars
    /\ [][(pc = "loop" /\ pc' # "loop") =>
             \/ pc' = "returned" /\ Dimension(U) = K.deg /\ result'.L = K
             \/ pc' \in {"sample", "build"} /\ ~modified /\ U' = U]_vars

\* a first call left the loop after as many passes as the bound allows,
\* one of which enlarged U
SaturationTerminatesWitness ==
    /\ pc = "returned"
    /\ first = <<>>
    /\ ~AllRational
    /\ Dimension(U) > InitialDimension
    /\ passes = K.deg - InitialDimension + 1

=============================================================================
